---- MODULE Spec2Model ----
(***************************************************************************)
(* qcoin: the interactive session (model.Update driven by the Bubble Tea   *)
(* event loop), the fetch command it starts and the bit counter.           *)
(* Modelled from the interactive program with the label editor             *)
(* (src/unnamed/part_001, lines 1-516); src/main.go is the same program    *)
(* without the label editor.                                               *)
(***************************************************************************)
EXTENDS Integers, Sequences, FiniteSets, TLC

(***************************************************************************)
(* Bounds of the model.                                                    *)
(***************************************************************************)
\* The entropy block size (const bytesToFetch, 1024 in the source), scaled.
BlockLen == 2
\* Flip requests are modelled while the history is shorter than this.
MaxResults == 2
\* Runes are typed while the two label buffers together hold fewer than this.
MaxTyped == 10
\* The longest body a provider returns to the non-interactive program.
MaxBytes == 3
\* The longest history the view is rendered for.
MaxShown == 3

(***************************************************************************)
(* Program constants.                                                      *)
(***************************************************************************)
resOnes == 0
resZeros == 1
resTie == 2
CharLimit == 20
cardWidth == 14
StatusOK == 200

Nil == "nil"

ONES == <<"O", "N", "E", "S">>
ZEROS == <<"Z", "E", "R", "O", "S">>

\* Values the -s flag can carry: the two providers and an unrecognised one.
Sources == {"qr", "anu", "xyz"}

\* n bytes of value b.
AllOf(b, n) == [i \in 1..n |-> b]

\* Bodies a provider is modelled to return: a block of 0x00, of 0xFF and of
\* 0x0F bytes of the requested length, and a block one byte short.
Bodies == {AllOf(0, BlockLen), AllOf(255, BlockLen), AllOf(15, BlockLen),
           AllOf(0, BlockLen - 1)}

Outcomes == {"ok", "fail"}
Statuses == {200, 204, 500}

\* Terminal sizes (width, height) the window is modelled to report.
WindowSizes == {<<40, 10>>}

\* Byte values and the bodies (of every length up to MaxBytes) a provider is
\* modelled to return to the non-interactive program.
ByteValues == {0, 15, 128, 255}
ByteSeqs == UNION {[1..n -> ByteValues] : n \in 0..MaxBytes}

(***************************************************************************)
(* countBits and the verdict.                                              *)
(***************************************************************************)
\* Faulty variant of BitSet: the mask is shifted one place too far.
BitSet_ShiftedMask(b, i) == (b \div (2 ^ (i + 1))) % 2 = 1

\* Bit i of byte b: (b & (1 << i)) != 0.
BitSet(b, i) == (b \div (2 ^ i)) % 2 = 1

OnesInByte(b) == Cardinality({i \in 0..7 : BitSet(b, i)})

RECURSIVE CountOnes(_)
CountOnes(bytes) ==
    IF bytes = <<>> THEN 0
    ELSE OnesInByte(Head(bytes)) + CountOnes(Tail(bytes))

\* The else branch of the bit test (lines 431-433).
ZerosInByte(b) == Cardinality({i \in 0..7 : ~BitSet(b, i)})

RECURSIVE CountZeros(_)
CountZeros(bytes) ==
    IF bytes = <<>> THEN 0
    ELSE ZerosInByte(Head(bytes)) + CountZeros(Tail(bytes))

countBits(bytes) == <<CountOnes(bytes), CountZeros(bytes)>>

flipResult(ones, zeros, winner) ==
    [ones |-> ones, zeros |-> zeros, winner |-> winner]

\* The zero value of flipResult (winner 0 is resOnes).
ZeroResult == flipResult(0, 0, resOnes)

\* Faulty variant of Winner: a tie goes to the ones.
Winner_TieToOnes(ones, zeros) ==
    IF ones >= zeros THEN resOnes
    ELSE resZeros

\* Lines 365-375: resTie unless one side has more.
Winner(ones, zeros) ==
    IF ones > zeros THEN resOnes
    ELSE IF zeros > ones THEN resZeros
    ELSE resTie

(***************************************************************************)
(* The providers.  A fetch returns <<bytes, err>>.                         *)
(***************************************************************************)
Fail(tag) == [bytes |-> <<>>, err |-> tag]
Ok(bytes) == [bytes |-> bytes, err |-> Nil]

QrNet == [get1 : Outcomes, status1 : Statuses, json : Outcomes,
          get2 : Outcomes, status2 : Statuses, read : Outcomes, body : Bodies]

AnuNet == [get : Outcomes, status : Statuses, json : Outcomes,
           success : BOOLEAN, data : Bodies]

fetchQRandomBytes(net) ==
    IF net.get1 = "fail" THEN Fail("qrandom.io request failed")
    ELSE IF net.status1 # StatusOK THEN Fail("qrandom.io returned status")
    ELSE IF net.json = "fail" THEN Fail("failed to parse qrandom.io response")
    ELSE IF net.get2 = "fail" THEN Fail("failed to fetch binary data")
    ELSE IF net.status2 # StatusOK THEN Fail("binary fetch returned status")
    ELSE IF net.read = "fail" THEN Fail("failed to read binary data")
    ELSE Ok(net.body)

\* Faulty variant of fetchAnuQrngBytes: the length of data is not checked.
fetchAnuQrngBytes_LengthUnchecked(net) ==
    IF net.get = "fail" THEN Fail("ANU QRNG request failed")
    ELSE IF net.status # StatusOK THEN Fail("ANU QRNG returned status")
    ELSE IF net.json = "fail" THEN Fail("failed to parse ANU QRNG response")
    ELSE IF ~net.success THEN Fail("ANU QRNG API returned success=false")
    ELSE Ok(net.data)

fetchAnuQrngBytes(net) ==
    IF net.get = "fail" THEN Fail("ANU QRNG request failed")
    ELSE IF net.status # StatusOK THEN Fail("ANU QRNG returned status")
    ELSE IF net.json = "fail" THEN Fail("failed to parse ANU QRNG response")
    ELSE IF ~net.success THEN Fail("ANU QRNG API returned success=false")
    ELSE IF Len(net.data) # BlockLen THEN Fail("expected bytes, got")
    ELSE Ok(net.data)

\* The responses the network can give to a fetch from `src`.
NetFor(src) ==
    IF src = "qr" THEN QrNet
    ELSE IF src = "anu" THEN AnuNet
    ELSE {Nil}

fetchRandomBytes(src, net) ==
    IF src = "qr" THEN fetchQRandomBytes(net)
    ELSE IF src = "anu" THEN fetchAnuQrngBytes(net)
    ELSE Fail("unknown source")

flipMsg(result, e) == [result |-> result, err |-> e]

\* The message the command created by fetchAndFlipCmd(src) returns.
fetchAndFlip(src, net) ==
    LET got == fetchRandomBytes(src, net) IN
    IF got.err # Nil THEN flipMsg(ZeroResult, got.err)
    ELSE LET c == countBits(got.bytes) IN
         flipMsg(flipResult(c[1], c[2], Winner(c[1], c[2])), Nil)

\* The messages the command can return, over every response of the network.
QrCompletions == {fetchAndFlip("qr", net) : net \in QrNet}
AnuCompletions == {fetchAndFlip("anu", net) : net \in AnuNet}

Completions(src) ==
    IF src = "qr" THEN QrCompletions
    ELSE IF src = "anu" THEN AnuCompletions
    ELSE {fetchAndFlip(src, net) : net \in NetFor(src)}

(***************************************************************************)
(* textinput.Model, as far as the session uses it.                         *)
(***************************************************************************)
TextInput(value, focus) == [value |-> value, focus |-> focus]

Truncate(s) == IF Len(s) > CharLimit THEN SubSeq(s, 1, CharLimit) ELSE s

SetValue(ti, s) == TextInput(Truncate(s), ti.focus)
Blur(ti) == TextInput(ti.value, FALSE)
Focus(ti) == TextInput(ti.value, TRUE)

\* textinput.Update for a rune key: inserted at the end when focused and
\* under the character limit.
InsertRune(ti, r) ==
    IF ti.focus /\ Len(ti.value) < CharLimit
    THEN TextInput(Append(ti.value, r), ti.focus)
    ELSE ti

(***************************************************************************)
(* State.                                                                  *)
(***************************************************************************)
VARIABLES
    source, results, loading, err, width, height,
    onesMsg, zerosMsg, inputMode, onesInput, zerosInput, focusedInput,
    cmds,      \* fetch commands running off the loop: their captured source
    msgs,      \* flipMsg values returned by commands, not yet dispatched
    running    \* the event loop has not quit

\* The non-interactive program (runCLI), step by step.
VARIABLES
    pc,        \* where the process is: "tui" when main started the session
    arg,       \* the source runCLI was called with
    network,   \* the responses the network gives to this run's requests
    requests,  \* the GET requests issued so far
    fetched,   \* what fetchRandomBytes returned
    tally,     \* what countBits returned
    stdout, stderr, exitCode,
    interactive  \* the -i flag

session == <<source, results, loading, err, width, height>>
labels == <<onesMsg, zerosMsg>>
editor == <<inputMode, onesInput, zerosInput, focusedInput>>
runtime == <<cmds, msgs, running>>
process == <<pc, arg, network, requests, fetched, tally, stdout, stderr,
             exitCode, interactive>>
vars == <<session, labels, editor, runtime, process>>

initialModel(src) ==
    /\ source = src
    /\ results = <<>>
    /\ loading = FALSE
    /\ err = Nil
    /\ width = 0
    /\ height = 0
    /\ onesMsg = ONES
    /\ zerosMsg = ZEROS
    /\ inputMode = FALSE
    /\ onesInput = TextInput(<<>>, FALSE)
    /\ zerosInput = TextInput(<<>>, FALSE)
    /\ focusedInput = 0

\* runCLI is not called: main took the -i branch (lines 388-393).
NotCalled ==
    /\ pc = "tui"
    /\ arg = Nil
    /\ network = Nil
    /\ requests = <<>>
    /\ fetched = Nil
    /\ tally = Nil
    /\ stdout = <<>>
    /\ stderr = <<>>
    /\ exitCode = Nil
    /\ interactive = TRUE

Init ==
    /\ \E src \in Sources : initialModel(src)
    /\ cmds = <<>>
    /\ msgs = <<>>
    /\ running = TRUE
    /\ NotCalled

(***************************************************************************)
(* model.Update                                                            *)
(***************************************************************************)
\* Line 151: the label editor is open and takes every message.
InInputMode == inputMode

\* Faulty variant of FlipAccepted: enter is not guarded by the loading flag.
FlipAccepted_Always == TRUE

\* Line 203: enter starts a flip.
FlipAccepted == ~loading

\* Faulty variant of StartFlip: the loading flag is not set.
StartFlip_LoadingNotSet ==
    /\ err' = Nil
    /\ cmds' = Append(cmds, source)
    /\ UNCHANGED <<source, results, loading, width, height, labels, editor,
                   msgs, running, process>>

\* Faulty variant of StartFlip: the old error is not cleared.
StartFlip_ErrorKept ==
    /\ loading' = TRUE
    /\ cmds' = Append(cmds, source)
    /\ UNCHANGED <<source, results, err, width, height, labels, editor,
                   msgs, running, process>>

\* Lines 204-206: the flip is loading, the old error is gone, the command
\* of fetchAndFlipCmd(m.source) is handed to the runtime.
StartFlip ==
    /\ loading' = TRUE
    /\ err' = Nil
    /\ cmds' = Append(cmds, source)
    /\ UNCHANGED <<source, results, width, height, labels, editor,
                   msgs, running, process>>

\* Faulty variant of ToggleSource: the else branch is missing.
ToggleSource_NoElse(s) == IF s = "qr" THEN "anu" ELSE s

\* Lines 213-217.
ToggleSource(s) == IF s = "qr" THEN "anu" ELSE "qr"

\* Lines 186-193: the message goes to the focused text input.
UpdateFocusedInput(r) ==
    /\ IF focusedInput = 0
       THEN /\ onesInput' = InsertRune(onesInput, r)
            /\ UNCHANGED zerosInput
       ELSE /\ zerosInput' = InsertRune(zerosInput, r)
            /\ UNCHANGED onesInput
    /\ UNCHANGED <<session, labels, inputMode, focusedInput, runtime, process>>

\* A message the text inputs take no notice of.
IgnoredByInput == UNCHANGED <<session, labels, editor, runtime, process>>

\* Faulty variant of RuneKey: the key is handled as if the editor were closed.
RuneKey_SkipsEditor(r, normal) ==
    /\ running
    /\ normal

\* A rune key; `normal` is what Update does with it outside the editor.
RuneKey(r, normal) ==
    /\ running
    /\ IF InInputMode
       THEN /\ Len(onesInput.value) + Len(zerosInput.value) < MaxTyped
            /\ UpdateFocusedInput(r)
       ELSE normal

\* Enter: label-edit-confirm in the editor (lines 156-163), a flip request
\* outside it (lines 202-207).
KeyEnter ==
    /\ running
    /\ IF InInputMode
       THEN /\ onesMsg' = onesInput.value
            /\ zerosMsg' = zerosInput.value
            /\ inputMode' = FALSE
            /\ onesInput' = Blur(onesInput)
            /\ zerosInput' = Blur(zerosInput)
            /\ UNCHANGED <<session, focusedInput, runtime, process>>
       ELSE IF FlipAccepted
       THEN /\ Len(results) < MaxResults
            /\ StartFlip
       ELSE UNCHANGED <<session, labels, editor, runtime, process>>

\* Esc: label-edit-cancel in the editor (lines 164-169); no case outside it.
KeyEsc ==
    /\ running
    /\ IF InInputMode
       THEN /\ inputMode' = FALSE
            /\ onesInput' = Blur(onesInput)
            /\ zerosInput' = Blur(zerosInput)
            /\ UNCHANGED <<session, labels, focusedInput, runtime, process>>
       ELSE UNCHANGED <<session, labels, editor, runtime, process>>

\* Tab, Up or Down: focus switch in the editor (lines 170-182); no case
\* outside it.
KeyFocus ==
    /\ running
    /\ IF InInputMode
       THEN /\ IF focusedInput = 0
               THEN /\ focusedInput' = 1
                    /\ onesInput' = Blur(onesInput)
                    /\ zerosInput' = Focus(zerosInput)
               ELSE /\ focusedInput' = 0
                    /\ zerosInput' = Blur(zerosInput)
                    /\ onesInput' = Focus(onesInput)
            /\ UNCHANGED <<session, labels, inputMode, runtime, process>>
       ELSE UNCHANGED <<session, labels, editor, runtime, process>>

\* Faulty variant of KeyQ: 'q' quits with the editor open too.
KeyQ_InEveryBranch ==
    /\ running
    /\ running' = FALSE
    /\ UNCHANGED <<session, labels, editor, cmds, msgs, process>>

KeyQ ==
    RuneKey("q", /\ running' = FALSE
                 /\ UNCHANGED <<session, labels, editor, cmds, msgs, process>>)

\* Faulty variant of KeyR: 'r' resets with the editor open too.
KeyR_InEveryBranch ==
    /\ running
    /\ results' = <<>>
    /\ UNCHANGED <<source, loading, err, width, height, labels, editor,
                   runtime, process>>

\* Faulty variant of KeyR: the reset keeps the most recent result.
KeyR_KeepsLatest ==
    RuneKey("r", /\ results' = IF results = <<>> THEN <<>>
                                ELSE <<results[Len(results)]>>
                 /\ UNCHANGED <<source, loading, err, width, height,
                                labels, editor, runtime, process>>)

KeyR ==
    RuneKey("r", /\ results' = <<>>
                 /\ UNCHANGED <<source, loading, err, width, height,
                                labels, editor, runtime, process>>)

KeyC ==
    RuneKey("c", /\ source' = ToggleSource(source)
                 /\ UNCHANGED <<results, loading, err, width, height,
                                labels, editor, runtime, process>>)

KeyI ==
    RuneKey("i", /\ inputMode' = TRUE
                 /\ focusedInput' = 0
                 /\ onesInput' = Focus(SetValue(onesInput, onesMsg))
                 /\ zerosInput' = Blur(SetValue(zerosInput, zerosMsg))
                 /\ UNCHANGED <<session, labels, runtime, process>>)

\* tea.WindowSizeMsg (lines 229-231); the text inputs take no notice of it.
WindowSize ==
    /\ running
    /\ \E size \in WindowSizes :
        IF InInputMode
        THEN IgnoredByInput
        ELSE /\ width' = size[1]
             /\ height' = size[2]
             /\ UNCHANGED <<source, results, loading, err, labels,
                            editor, runtime, process>>

\* Faulty variant of FlipCompleted: the flipMsg is handled with the editor
\* open too.
FlipCompleted_HandledInEditor ==
    /\ running
    /\ msgs # <<>>
    /\ msgs' = Tail(msgs)
    /\ loading' = FALSE
    /\ IF Head(msgs).err # Nil
       THEN /\ err' = Head(msgs).err
            /\ UNCHANGED results
       ELSE /\ results' = Append(results, Head(msgs).result)
            /\ UNCHANGED err
    /\ UNCHANGED <<source, width, height, labels, editor, cmds,
                   running, process>>

\* Faulty variant of FlipCompleted: a failed flip is started again.
FlipCompleted_RetriesOnError ==
    /\ running
    /\ msgs # <<>>
    /\ msgs' = Tail(msgs)
    /\ IF InInputMode
       THEN UNCHANGED <<session, labels, editor, cmds, running, process>>
       ELSE IF Head(msgs).err # Nil
       THEN /\ cmds' = Append(cmds, source)
            /\ UNCHANGED <<session, labels, editor, running, process>>
       ELSE /\ loading' = FALSE
            /\ results' = Append(results, Head(msgs).result)
            /\ UNCHANGED <<source, err, width, height, labels, editor, cmds,
                           running, process>>

\* The loop dispatches the flipMsg a command returned (lines 233-240).  With
\* the editor open the message goes to the focused text input, which has no
\* case for it.
FlipCompleted ==
    /\ running
    /\ msgs # <<>>
    /\ msgs' = Tail(msgs)
    /\ IF InInputMode
       THEN UNCHANGED <<session, labels, editor, cmds, running, process>>
       ELSE /\ loading' = FALSE
            /\ IF Head(msgs).err # Nil
               THEN /\ err' = Head(msgs).err
                    /\ UNCHANGED results
               ELSE /\ results' = Append(results, Head(msgs).result)
                    /\ UNCHANGED err
            /\ UNCHANGED <<source, width, height, labels, editor, cmds,
                           running, process>>

(***************************************************************************)
(* The command of fetchAndFlipCmd, run by the runtime off the loop.        *)
(***************************************************************************)
\* Faulty variant of FetchCmd: the command reads the session's selector when
\* it runs instead of the source it was created with.
FetchCmd_ReadsSelector ==
    /\ running
    /\ cmds # <<>>
    /\ \E i \in 1..Len(cmds) :
        \E m \in Completions(source) :
            /\ msgs' = Append(msgs, m)
            /\ cmds' = SubSeq(cmds, 1, i - 1) \o SubSeq(cmds, i + 1, Len(cmds))
    /\ UNCHANGED <<session, labels, editor, running, process>>

FetchCmd ==
    /\ running
    /\ cmds # <<>>
    /\ \E i \in 1..Len(cmds) :
        \E m \in Completions(cmds[i]) :
            /\ msgs' = Append(msgs, m)
            /\ cmds' = SubSeq(cmds, 1, i - 1) \o SubSeq(cmds, i + 1, Len(cmds))
    /\ UNCHANGED <<session, labels, editor, running, process>>

Next ==
    \/ KeyEnter
    \/ KeyEsc
    \/ KeyFocus
    \/ KeyQ
    \/ KeyR
    \/ KeyC
    \/ KeyI
    \/ WindowSize
    \/ FlipCompleted
    \/ FetchCmd

Spec == Init /\ [][Next]_vars

(***************************************************************************)
(* The non-interactive program: main calls runCLI (line 396), which        *)
(* fetches once, counts and prints.                                        *)
(***************************************************************************)
CliQrNet == [get1 : Outcomes, status1 : Statuses, json : Outcomes,
             get2 : Outcomes, status2 : Statuses, read : Outcomes,
             body : ByteSeqs]

CliAnuNet == [get : Outcomes, status : Statuses, json : Outcomes,
              success : BOOLEAN, data : ByteSeqs]

CliNetFor(src) ==
    IF src = "qr" THEN CliQrNet
    ELSE IF src = "anu" THEN CliAnuNet
    ELSE {Nil}

QrApiUrl == "https://qrandom.io/api/random/binary"
QrBinaryUrl == "binaryURL"
AnuApiUrl == "https://qrng.anu.edu.au/API/jsonI.php"

\* No session: tea.NewProgram and initialModel are not called.
NoSession ==
    /\ source = Nil
    /\ results = <<>>
    /\ loading = FALSE
    /\ err = Nil
    /\ width = 0
    /\ height = 0
    /\ onesMsg = <<>>
    /\ zerosMsg = <<>>
    /\ inputMode = FALSE
    /\ onesInput = TextInput(<<>>, FALSE)
    /\ zerosInput = TextInput(<<>>, FALSE)
    /\ focusedInput = 0
    /\ cmds = <<>>
    /\ msgs = <<>>
    /\ running = FALSE

\* runCLI(*source) is called (line 396) with any value of the -s flag.
CliInit ==
    /\ NoSession
    /\ pc = "runCLI"
    /\ arg \in Sources
    /\ network \in CliNetFor(arg)
    /\ requests = <<>>
    /\ fetched = Nil
    /\ tally = Nil
    /\ stdout = <<>>
    /\ stderr = <<>>
    /\ exitCode = Nil
    /\ interactive = FALSE

noSession == <<session, labels, editor, runtime>>

\* Lines 403 and 440-449: fetchRandomBytes picks the provider.
RunFetch ==
    /\ pc = "runCLI"
    /\ IF arg = "qr" THEN pc' = "qr.api" /\ UNCHANGED fetched
       ELSE IF arg = "anu" THEN pc' = "anu.api" /\ UNCHANGED fetched
       ELSE pc' = "fetched" /\ fetched' = Fail("unknown source")
    /\ UNCHANGED <<arg, network, requests, tally, stdout, stderr, exitCode,
                   noSession, interactive>>

\* Faulty variant of QrApiGet: the status of the first response is not
\* checked.
QrApiGet_StatusUnchecked ==
    /\ pc = "qr.api"
    /\ requests' = Append(requests, QrApiUrl)
    /\ IF network.get1 = "fail"
       THEN pc' = "fetched" /\ fetched' = Fail("qrandom.io request failed")
       ELSE IF network.json = "fail"
       THEN /\ pc' = "fetched"
            /\ fetched' = Fail("failed to parse qrandom.io response")
       ELSE pc' = "qr.binary" /\ UNCHANGED fetched
    /\ UNCHANGED <<arg, network, tally, stdout, stderr, exitCode,
                   noSession, interactive>>

\* Lines 454-468: the first GET of fetchQRandomBytes and its descriptor.
QrApiGet ==
    /\ pc = "qr.api"
    /\ requests' = Append(requests, QrApiUrl)
    /\ IF network.get1 = "fail"
       THEN pc' = "fetched" /\ fetched' = Fail("qrandom.io request failed")
       ELSE IF network.status1 # StatusOK
       THEN pc' = "fetched" /\ fetched' = Fail("qrandom.io returned status")
       ELSE IF network.json = "fail"
       THEN /\ pc' = "fetched"
            /\ fetched' = Fail("failed to parse qrandom.io response")
       ELSE pc' = "qr.binary" /\ UNCHANGED fetched
    /\ UNCHANGED <<arg, network, tally, stdout, stderr, exitCode,
                   noSession, interactive>>

\* Lines 470-485: the second GET of fetchQRandomBytes and its body.
QrBinaryGet ==
    /\ pc = "qr.binary"
    /\ requests' = Append(requests, QrBinaryUrl)
    /\ pc' = "fetched"
    /\ fetched' =
           IF network.get2 = "fail" THEN Fail("failed to fetch binary data")
           ELSE IF network.status2 # StatusOK
           THEN Fail("binary fetch returned status")
           ELSE IF network.read = "fail"
           THEN Fail("failed to read binary data")
           ELSE Ok(network.body)
    /\ UNCHANGED <<arg, network, tally, stdout, stderr, exitCode,
                   noSession, interactive>>

\* Lines 491-515: the one GET of fetchAnuQrngBytes.
AnuApiGet ==
    /\ pc = "anu.api"
    /\ requests' = Append(requests, AnuApiUrl)
    /\ pc' = "fetched"
    /\ fetched' = fetchAnuQrngBytes(network)
    /\ UNCHANGED <<arg, network, tally, stdout, stderr, exitCode,
                   noSession, interactive>>

\* Faulty variant of RunError: the error is printed and the run goes on.
RunError_NoExit ==
    /\ pc = "fetched"
    /\ fetched.err # Nil
    /\ stderr' = Append(stderr, <<"Error: ", fetched.err>>)
    /\ tally' = countBits(fetched.bytes)
    /\ pc' = "counted"
    /\ UNCHANGED <<arg, network, requests, fetched, stdout, exitCode,
                   noSession, interactive>>

\* Lines 404-407: the error line and os.Exit(1).
RunError ==
    /\ pc = "fetched"
    /\ fetched.err # Nil
    /\ stderr' = Append(stderr, <<"Error: ", fetched.err>>)
    /\ exitCode' = 1
    /\ pc' = "exited"
    /\ UNCHANGED <<arg, network, requests, fetched, tally, stdout,
                   noSession, interactive>>

\* Line 409.
RunCountBits ==
    /\ pc = "fetched"
    /\ fetched.err = Nil
    /\ tally' = countBits(fetched.bytes)
    /\ pc' = "counted"
    /\ UNCHANGED <<arg, network, requests, fetched, stdout, stderr, exitCode,
                   noSession, interactive>>

\* Lines 414-420: the verdict runCLI prints.
cliVerdict(ones, zeros) ==
    IF ones > zeros THEN "ONES"
    ELSE IF zeros > ones THEN "ZEROS"
    ELSE "TIE"

\* Lines 411-420: the three lines; runCLI and main return (status 0).
RunPrint ==
    /\ pc = "counted"
    /\ stdout' = stdout \o << <<"Ones: ", tally[1]>>,
                              <<"Zeros: ", tally[2]>>,
                              <<"Result: ", cliVerdict(tally[1], tally[2])>> >>
    /\ exitCode' = 0
    /\ pc' = "exited"
    /\ UNCHANGED <<arg, network, requests, fetched, tally, stderr,
                   noSession, interactive>>

CliNext ==
    \/ RunFetch
    \/ QrApiGet
    \/ QrBinaryGet
    \/ AnuApiGet
    \/ RunError
    \/ RunCountBits
    \/ RunPrint

CliSpec == CliInit /\ [][CliNext]_vars

(***************************************************************************)
(* model.View: what the session draws on the terminal.                     *)
(***************************************************************************)
\* Go's integer division, which truncates towards zero.
GoDiv(a, b) == IF a >= 0 THEN a \div b ELSE -((-a) \div b)

\* Faulty variant of maxCards: no floor of one card.
maxCards_NoMinimum(w) == GoDiv(w - 8, cardWidth)

\* Lines 264-269.
maxCards(w) ==
    LET availableWidth == w - 8
        fit == GoDiv(availableWidth, cardWidth)
    IN  IF fit < 1 THEN 1 ELSE fit

\* Lines 271-275.
visibleResults ==
    IF Len(results) > maxCards(width)
    THEN SubSeq(results, Len(results) - maxCards(width) + 1, Len(results))
    ELSE results

\* Lines 278-307: the card of visibleResults[i]; `latest` chooses the
\* current*Style.
Card(i) ==
    LET res == visibleResults[i]
        isLatest == (i = Len(visibleResults)) /\ Len(results) > 0
    IN  [label |-> IF res.winner = resOnes THEN onesMsg
                   ELSE IF res.winner = resZeros THEN zerosMsg
                   ELSE <<"T", "I", "E">>,
         ones |-> res.ones,
         zeros |-> res.zeros,
         latest |-> isLatest]

\* Lines 330-338.
StatusBar ==
    IF err # Nil THEN <<"Error: ", err>>
    ELSE IF loading THEN <<"Extracting entropy...">>
    ELSE <<"Source: ", source, Len(results)>>

\* Lines 245-352.
View ==
    IF width = 0 THEN [screen |-> "loading..."]
    ELSE IF inputMode
    THEN [screen |-> "editor", inputs |-> <<onesInput, zerosInput>>]
    ELSE [screen |-> "session",
          cards |-> [i \in 1..Len(visibleResults) |-> Card(i)],
          empty |-> Len(results) = 0,
          status |-> StatusBar]

\* The results a flip can give, and the histories the view is rendered for.
FlipResults ==
    {m.result : m \in {c \in QrCompletions \cup AnuCompletions : c.err = Nil}}
Histories == UNION {[1..n -> FlipResults] : n \in 0..MaxShown}

\* Terminal widths: none reported yet, narrower than a card, and wide
\* enough for one, two and three cards.
Widths == {0, 5, 22, 36, 50}

\* A session that has any of the histories on a terminal of any of the
\* widths, with the label editor open or closed.
ViewInit ==
    /\ source \in Sources
    /\ results \in Histories
    /\ loading = FALSE
    /\ err = Nil
    /\ width \in Widths
    /\ height = 10
    /\ onesMsg = ONES
    /\ zerosMsg = ZEROS
    /\ inputMode \in BOOLEAN
    /\ onesInput = TextInput(IF inputMode THEN ONES ELSE <<>>, inputMode)
    /\ zerosInput = TextInput(IF inputMode THEN ZEROS ELSE <<>>, FALSE)
    /\ focusedInput = 0
    /\ cmds = <<>>
    /\ msgs = <<>>
    /\ running = TRUE
    /\ NotCalled

\* The runtime draws the frame View returns.
Render ==
    /\ running
    /\ stdout = <<>>
    /\ stdout' = <<View>>
    /\ UNCHANGED <<session, labels, editor, runtime, pc, arg, network,
                   requests, fetched, tally, stderr, exitCode, interactive>>

ViewNext == Render

ViewSpec == ViewInit /\ [][ViewNext]_vars

(***************************************************************************)
(* main: the flags choose between the session and runCLI.                  *)
(***************************************************************************)
\* Lines 384-386: the flags are parsed; -i is a boolean, false by default,
\* and -s any string.
MainInit ==
    /\ NoSession
    /\ pc = "main"
    /\ interactive \in BOOLEAN
    /\ arg \in Sources
    /\ network \in (IF interactive THEN {Nil} ELSE CliNetFor(arg))
    /\ requests = <<>>
    /\ fetched = Nil
    /\ tally = Nil
    /\ stdout = <<>>
    /\ stderr = <<>>
    /\ exitCode = Nil

\* Lines 388-397: under -i the session of initialModel(*source) (lines
\* 134-143), runCLI(*source) otherwise.
main ==
    /\ pc = "main"
    /\ IF interactive
       THEN /\ pc' = "tui"
            /\ source' = arg
            /\ results' = <<>>
            /\ loading' = FALSE
            /\ err' = Nil
            /\ width' = 0
            /\ height' = 0
            /\ onesMsg' = ONES
            /\ zerosMsg' = ZEROS
            /\ inputMode' = FALSE
            /\ onesInput' = TextInput(<<>>, FALSE)
            /\ zerosInput' = TextInput(<<>>, FALSE)
            /\ focusedInput' = 0
            /\ running' = TRUE
            /\ UNCHANGED <<cmds, msgs>>
       ELSE /\ pc' = "runCLI"
            /\ UNCHANGED noSession
    /\ UNCHANGED <<arg, network, requests, fetched, tally, stdout, stderr,
                   exitCode, interactive>>

MainNext ==
    \/ main
    \/ Next
    \/ CliNext

MainSpec == MainInit /\ [][MainNext]_vars

(***************************************************************************)
(* The phase of the session, as Update decides which branch takes a        *)
(* message: the editor first (line 151), then the loading flag (line 203). *)
(***************************************************************************)
IDLE == "IDLE"
LOADING == "LOADING"
LABEL_EDITING == "LABEL_EDITING"

Phase ==
    IF inputMode THEN LABEL_EDITING
    ELSE IF loading THEN LOADING
    ELSE IDLE

Providers == {"qr", "anu"}

\* Fetches started and not yet delivered to Update as a flipMsg.
InFlight == Len(cmds) + Len(msgs)

(***************************************************************************)
(* C1                                                                      *)
(***************************************************************************)
\* C1: an Enter key dispatched while the phase is LOADING changes no part of
\* the session state (history, source, labels, error, loading flag, editor)
\* and starts no fetch; and whatever the phase, Enter starts no fetch while a
\* flip is loading.
C1_EnterIgnoredWhileLoading ==
    /\ Phase = LOADING => ~ENABLED (KeyEnter /\ vars' # vars)
    /\ loading => ~ENABLED (KeyEnter /\ <<cmds, msgs>>' # <<cmds, msgs>>)

\* A LOADING state, its fetch still running, in which Enter can be dispatched.
C1_Witness ==
    /\ Phase = LOADING
    /\ Len(cmds) = 1
    /\ ENABLED KeyEnter

(***************************************************************************)
(* C2                                                                      *)
(***************************************************************************)
\* C2: in every reachable state at most one fetch is in flight (started by
\* fetchAndFlipCmd and not yet delivered as a flipMsg).
C2_AtMostOneFetchInFlight == InFlight <= 1

\* A second flip of the session in flight while the label editor is open.
C2_Witness ==
    /\ InFlight = 1
    /\ results # <<>>
    /\ inputMode

(***************************************************************************)
(* C3                                                                      *)
(***************************************************************************)
\* C3: every accepted flip request is followed, once its completion event has
\* been delivered to the loop, by the session having left LOADING: no state
\* has the loading flag set with no fetch in flight.
C3_CompletionLeavesLoading == (InFlight = 0) => ~loading

(***************************************************************************)
(* C4                                                                      *)
(***************************************************************************)
\* C4: no reachable state has a fetch loading and the label editor open at
\* the same time.
C4_NeverLoadingAndEditing == ~(loading /\ inputMode)

(***************************************************************************)
(* C5                                                                      *)
(***************************************************************************)
\* C5: the dispatch of a flipMsg carrying a result appends exactly that
\* result as the last element of the history and clears the loading flag;
\* the history changes in no other way except by a reset.
C5_SuccessAppends ==
    [][/\ (FlipCompleted /\ Head(msgs).err = Nil) =>
              /\ results' = Append(results, Head(msgs).result)
              /\ ~loading'
       /\ (results' # results) =>
              \/ results' = <<>>
              \/ Len(results') = Len(results) + 1
                     /\ SubSeq(results', 1, Len(results)) = results]_vars

(***************************************************************************)
(* C6                                                                      *)
(***************************************************************************)
\* C6: the dispatch of a flipMsg carrying an error leaves the history
\* unchanged, records the error, clears the loading flag and keeps the loop
\* running, so that the next Enter is accepted as a flip request.
C6_FailureRecorded ==
    [][(FlipCompleted /\ Head(msgs).err # Nil) =>
           /\ results' = results
           /\ err' = Head(msgs).err
           /\ ~loading'
           /\ running']_vars

(***************************************************************************)
(* C7                                                                      *)
(***************************************************************************)
\* C7 as stated: the 'r' key dispatched while the phase is LOADING or
\* LABEL_EDITING leaves the history unchanged.
C7_ResetOnlyWhenIdle ==
    [][(KeyR /\ Phase # IDLE) => results' = results]_vars

\* C7 amended: the 'r' key is ignored by the session only while the label
\* editor is open (it is typed into the focused buffer; history, source,
\* loading, error and the fetch in flight are unchanged).  With the editor
\* closed it is accepted in IDLE and in LOADING alike: it clears the history
\* and changes nothing else, so the flip in flight lands in the cleared
\* history.
C7_ResetIgnoredOnlyInEditor ==
    /\ inputMode =>
           ~ENABLED (KeyR /\ ~UNCHANGED <<session, labels, runtime>>)
    /\ (running /\ ~inputMode) =>
           /\ ENABLED (KeyR /\ results' = <<>>)
           /\ ~ENABLED (KeyR /\ ~(/\ results' = <<>>
                                   /\ UNCHANGED <<source, loading, err,
                                                  labels, editor, runtime>>))

\* A flip of the session is in flight with a non-empty history and the editor
\* closed: 'r' clears the history the flip will land in.
C7_Witness ==
    /\ Phase = LOADING
    /\ InFlight = 1
    /\ results # <<>>
    /\ ENABLED (KeyR /\ results' = <<>> /\ loading')

(***************************************************************************)
(* C8                                                                      *)
(***************************************************************************)
\* C8 as stated: the 'c' key dispatched while the phase is LOADING or
\* LABEL_EDITING leaves the source selector unchanged.
C8_ToggleOnlyWhenIdle ==
    [][(KeyC /\ Phase # IDLE) => source' = source]_vars

\* C8 amended: the 'c' key is ignored by the session only while the label
\* editor is open (it is typed into the focused buffer and the selector is
\* unchanged).  With the editor closed it is accepted in IDLE and in LOADING
\* alike and switches the selector.
C8_ToggleIgnoredOnlyInEditor ==
    /\ inputMode =>
           ~ENABLED (KeyC /\ ~UNCHANGED <<session, labels, runtime>>)
    /\ (running /\ ~inputMode) =>
           /\ ENABLED (KeyC /\ source' # source)
           /\ ~ENABLED (KeyC /\ source' = source)

\* A fetch is in flight with the editor closed and 'c' switches the selector.
C8_Witness ==
    /\ Phase = LOADING
    /\ InFlight = 1
    /\ ENABLED (KeyC /\ source' # source /\ loading')

(***************************************************************************)
(* C9                                                                      *)
(***************************************************************************)
\* C9 as stated: the selector is always one of qr and anu, and two
\* consecutive toggles restore it.
C9_TogglesRestoreAnySelector ==
    /\ source \in Providers
    /\ ToggleSource(ToggleSource(source)) = source

\* C9 amended: an accepted 'c' sets the selector to one of qr and anu,
\* different from the one it had, and changes nothing else (history, labels,
\* loading, error, editor, fetches).  When the selector is qr or anu, which it
\* is from the first toggle on and from the start under -s qr or -s anu, two
\* consecutive toggles restore it; an unrecognised selector given with -s is
\* replaced by qr at the first toggle and never restored.
C9_ToggleSwitchesProvider ==
    /\ ToggleSource(source) \in Providers
    /\ ToggleSource(source) # source
    /\ source \in Providers => ToggleSource(ToggleSource(source)) = source
    /\ source \notin Providers =>
           /\ ToggleSource(source) = "qr"
           /\ ToggleSource(ToggleSource(source)) # source
    /\ (running /\ ~inputMode) =>
           /\ ENABLED (KeyC /\ source' = ToggleSource(source))
           /\ ~ENABLED (KeyC /\ ~(/\ source' = ToggleSource(source)
                                   /\ UNCHANGED <<results, loading, err,
                                                  width, height, labels,
                                                  editor, runtime>>))

\* The session was started with a provider, has been toggled to the other
\* one, and a further toggle restores the first.
C9_Witness ==
    /\ source = "anu"
    /\ ~inputMode
    /\ results # <<>>
    /\ ENABLED (KeyC /\ source' = "qr")

(***************************************************************************)
(* C10                                                                     *)
(***************************************************************************)
\* C10 as stated: the 'q' key ends the loop in every phase.
C10_QuitInEveryPhase == [][KeyQ => ~running']_vars

\* C10 amended: the 'q' key ends the loop when the phase is IDLE or LOADING.
\* While the label editor is open it is typed into the focused buffer and the
\* loop keeps running.  Once the loop has ended, nothing changes any more.
C10_QuitOutsideEditor ==
    /\ (running /\ ~inputMode) =>
           /\ ENABLED (KeyQ /\ ~running')
           /\ ~ENABLED (KeyQ /\ running')
    /\ inputMode =>
           ~ENABLED (KeyQ /\ ~(/\ running'
                               /\ inputMode'
                               /\ IF focusedInput = 0
                                  THEN onesInput'.value =
                                           Append(onesInput.value, "q")
                                  ELSE zerosInput'.value =
                                           Append(zerosInput.value, "q")))
    /\ ~running => ~ENABLED Next

\* The loop has ended while a fetch was loading.
C10_Witness ==
    /\ ~running
    /\ loading
    /\ InFlight = 1

(***************************************************************************)
(* C11                                                                     *)
(***************************************************************************)
\* C11: while the label editor stays open (edits to the two buffers, focus
\* switches) the labels do not change, and Esc in the editor leaves the
\* labels as they are and returns the phase to IDLE.
C11_CancelKeepsLabelsAndIdles ==
    [][/\ (inputMode /\ inputMode') => labels' = labels
       /\ (KeyEsc /\ inputMode) => (labels' = labels /\ Phase' = IDLE)]_vars

(***************************************************************************)
(* C12                                                                     *)
(***************************************************************************)
\* C12: 'i' with the editor closed seeds both buffers from the labels and
\* focuses the first one; Enter in the editor commits both buffers into the
\* labels and returns the phase to IDLE.
C12_SeedThenCommitIdles ==
    [][/\ (KeyI /\ ~inputMode) =>
              /\ onesInput' = TextInput(onesMsg, TRUE)
              /\ zerosInput' = TextInput(zerosMsg, FALSE)
              /\ focusedInput' = 0
              /\ Phase' = LABEL_EDITING
       /\ (KeyEnter /\ inputMode) =>
              /\ onesMsg' = onesInput.value
              /\ zerosMsg' = zerosInput.value
              /\ Phase' = IDLE]_vars

(***************************************************************************)
(* C13                                                                     *)
(***************************************************************************)
\* C13: whatever flips have landed in the history, an accepted 'r' (editor
\* closed) leaves the history empty, as initialModel builds it, and changes
\* nothing else: source, labels, phase, error, window size and the fetch in
\* flight are as before.
C13_ResetRestoresInitialHistory ==
    (running /\ ~inputMode) =>
        /\ ENABLED (KeyR /\ results' = <<>> /\ Phase' = Phase)
        /\ ~ENABLED (KeyR /\ ~(/\ results' = <<>>
                                /\ source' = source
                                /\ labels' = labels
                                /\ Phase' = Phase
                                /\ UNCHANGED <<err, width, height, editor,
                                               runtime>>))

\* Two successful flips have landed since the history was last empty, the
\* session is idle and 'r' returns the history to the empty one.
C13_Witness ==
    /\ Len(results) = MaxResults
    /\ Phase = IDLE
    /\ ENABLED (KeyR /\ results' = <<>> /\ Phase' = IDLE)

(***************************************************************************)
(* C14                                                                     *)
(***************************************************************************)
\* C14: every result in the history tallies the bits of a full entropy
\* block: ones + zeros = 8 * bytesToFetch.
C14_HistoryTalliesFullBlock ==
    \A i \in 1..Len(results) :
        results[i].ones + results[i].zeros = 8 * BlockLen

(***************************************************************************)
(* C15                                                                     *)
(***************************************************************************)
\* The set bits of a byte, digit by digit, and of a byte sequence.
RECURSIVE PopCount(_)
PopCount(b) == IF b = 0 THEN 0 ELSE (b % 2) + PopCount(b \div 2)

RECURSIVE SetBits(_)
SetBits(bytes) ==
    IF bytes = <<>> THEN 0 ELSE PopCount(Head(bytes)) + SetBits(Tail(bytes))

\* The run has called countBits on the bytes it fetched.
Counted == pc = "counted" \/ (pc = "exited" /\ exitCode = 0)

\* C15: for every byte sequence B the program fetches, countBits(B) is
\* (ones, zeros) with ones the number of set bits of B and ones + zeros =
\* 8 * Len(B); the empty sequence gives (0, 0), a block of 0x00 bytes gives
\* (0, 8 * Len) and a block of 0xFF bytes gives (8 * Len, 0).
C15_CountBitsTalliesEveryBit ==
    /\ countBits(<<>>) = <<0, 0>>
    /\ countBits(AllOf(0, BlockLen)) = <<0, 8 * BlockLen>>
    /\ countBits(AllOf(255, BlockLen)) = <<8 * BlockLen, 0>>
    /\ Counted =>
           LET B == fetched.bytes IN
           /\ tally = countBits(B)
           /\ tally[1] = SetBits(B)
           /\ tally[1] + tally[2] = 8 * Len(B)
           /\ tally[1] >= 0 /\ tally[2] >= 0
           /\ B = AllOf(0, Len(B)) => tally = <<0, 8 * Len(B)>>
           /\ B = AllOf(255, Len(B)) => tally = <<8 * Len(B), 0>>

\* countBits has run on a body of the longest length with bytes of mixed
\* bits, and found both ones and zeros, in different numbers.
C15_Witness ==
    /\ Counted
    /\ Len(fetched.bytes) = MaxBytes
    /\ fetched.bytes[1] = 128
    /\ fetched.bytes[MaxBytes] = 15
    /\ tally[1] > 0
    /\ tally[1] < tally[2]

(***************************************************************************)
(* C16                                                                     *)
(***************************************************************************)
\* The name runCLI prints for a resultType.
VerdictName(w) ==
    IF w = resOnes THEN "ONES" ELSE IF w = resZeros THEN "ZEROS" ELSE "TIE"

\* The run has printed its three lines.
Printed == pc = "exited" /\ exitCode = 0

\* C16: the verdict is ONES exactly when ones > zeros, ZEROS exactly when
\* zeros > ones and TIE exactly when they are equal, for the verdict runCLI
\* prints and for the winner fetchAndFlipCmd puts in its flipMsg; and from
\* the same response of the network both derive the same tally and verdict.
C16_VerdictFollowsTally ==
    Printed =>
        LET v == stdout[3][2]
            m == fetchAndFlip(arg, network)
        IN  /\ (v = "ONES") <=> (tally[1] > tally[2])
            /\ (v = "ZEROS") <=> (tally[2] > tally[1])
            /\ (v = "TIE") <=> (tally[1] = tally[2])
            /\ m.err = Nil
            /\ <<m.result.ones, m.result.zeros>> = tally
            /\ (m.result.winner = resOnes) <=> (m.result.ones > m.result.zeros)
            /\ (m.result.winner = resZeros) <=> (m.result.zeros > m.result.ones)
            /\ (m.result.winner = resTie) <=> (m.result.ones = m.result.zeros)
            /\ VerdictName(m.result.winner) = v

\* A run has printed TIE for a full block with as many ones as zeros.
C16_Witness ==
    /\ Printed
    /\ Len(fetched.bytes) = BlockLen
    /\ tally[1] = tally[2]
    /\ stdout[3] = <<"Result: ", "TIE">>

(***************************************************************************)
(* C17                                                                     *)
(***************************************************************************)
\* fetchRandomBytes has returned to runCLI.
Fetched == pc \in {"fetched", "counted", "exited"}

\* C17: an anu fetch returns bytes only when the request went through, the
\* status is 200, the JSON decodes, success is true and data holds exactly
\* bytesToFetch bytes, and then it returns data as it came; otherwise it
\* returns an error and no bytes.  In particular success = false is a
\* failure whatever the length of data, and any other length of data is a
\* failure too.
C17_AnuValidatesSuccessAndLength ==
    (arg = "anu" /\ Fetched) =>
        /\ fetched.err = Nil <=>
               /\ network.get = "ok"
               /\ network.status = StatusOK
               /\ network.json = "ok"
               /\ network.success
               /\ Len(network.data) = BlockLen
        /\ fetched.err = Nil => fetched.bytes = network.data
        /\ fetched.err # Nil => fetched.bytes = <<>>
        /\ requests = <<AnuApiUrl>>

\* An anu response with status 200 and success = true is refused because
\* data is one byte longer than asked for.
C17_Witness ==
    /\ arg = "anu"
    /\ Fetched
    /\ network.get = "ok" /\ network.status = StatusOK /\ network.json = "ok"
    /\ network.success
    /\ Len(network.data) = BlockLen + 1
    /\ fetched.err # Nil

(***************************************************************************)
(* C18                                                                     *)
(***************************************************************************)
\* The status is one of the 2xx.
Is2xx(status) == status \div 100 = 2

\* The first phase of the qr protocol went through.
FirstPhaseOk ==
    /\ network.get1 = "ok"
    /\ network.status1 = StatusOK
    /\ network.json = "ok"

\* C18: the second GET of a qr fetch is issued only after the first GET was
\* answered with a success status and its JSON decoded, and each GET is
\* issued at most once.  A transport error, a non-2xx status at either phase
\* or a JSON decode failure ends the fetch with an error that names the
\* stage, and no bytes; the result is the one fetchQRandomBytes gives the
\* interactive session for the same responses.
C18_QrTwoPhases ==
    arg = "qr" =>
        /\ requests \in {<<>>, <<QrApiUrl>>, <<QrApiUrl, QrBinaryUrl>>}
        /\ (pc = "qr.binary" \/ Len(requests) = 2) =>
               FirstPhaseOk /\ Is2xx(network.status1)
        /\ Fetched =>
               /\ fetched = fetchQRandomBytes(network)
               /\ Len(requests) = IF FirstPhaseOk THEN 2 ELSE 1
               /\ fetched.err # Nil => fetched.bytes = <<>>
               /\ network.get1 = "fail" =>
                      fetched.err = "qrandom.io request failed"
               /\ (network.get1 = "ok" /\ ~Is2xx(network.status1)) =>
                      fetched.err = "qrandom.io returned status"
               /\ (network.get1 = "ok" /\ network.status1 = StatusOK
                       /\ network.json = "fail") =>
                      fetched.err = "failed to parse qrandom.io response"
               /\ (FirstPhaseOk /\ network.get2 = "fail") =>
                      fetched.err = "failed to fetch binary data"
               /\ (FirstPhaseOk /\ network.get2 = "ok"
                       /\ ~Is2xx(network.status2)) =>
                      fetched.err = "binary fetch returned status"
               /\ fetched.err = Nil =>
                      /\ FirstPhaseOk
                      /\ network.get2 = "ok"
                      /\ network.status2 = StatusOK
                      /\ fetched.bytes = network.body

\* The first GET was answered with a non-2xx status: the fetch has ended with
\* the bad-status error after that one request.
C18_Witness ==
    /\ arg = "qr"
    /\ Fetched
    /\ network.get1 = "ok"
    /\ ~Is2xx(network.status1)
    /\ requests = <<QrApiUrl>>
    /\ fetched.err = "qrandom.io returned status"

(***************************************************************************)
(* C19                                                                     *)
(***************************************************************************)
\* C19: a fetch command is started only by an Enter accepted with the editor
\* closed and no flip loading, one per such Enter; a command returns exactly
\* one flipMsg and is gone; and the dispatch of a flipMsg, failed or not,
\* starts nothing.
C19_NoFetchWithoutRequest ==
    [][/\ (cmds' # cmds /\ Len(cmds') >= Len(cmds)) =>
              /\ KeyEnter
              /\ ~inputMode /\ ~loading
              /\ cmds' = Append(cmds, source)
       /\ FetchCmd => (Len(cmds') = Len(cmds) - 1 /\ Len(msgs') = Len(msgs) + 1)
       /\ FlipCompleted => (cmds' = cmds /\ msgs' = Tail(msgs))
       /\ InFlight' > InFlight => InFlight' = InFlight + 1]_vars

\* A qr flip has failed at its second GET and been delivered: the error is
\* recorded, the session is idle again and nothing is in flight.
C19_Witness ==
    /\ running
    /\ source \in Providers
    /\ err = "failed to fetch binary data"
    /\ Phase = IDLE
    /\ InFlight = 0

(***************************************************************************)
(* C20                                                                     *)
(***************************************************************************)
\* C20: a non-interactive run fetches once and ends: with the three lines
\* Ones, Zeros and Result on standard output, nothing on standard error and
\* status 0 when the fetch succeeded; with one error line on standard error,
\* nothing on standard output and a non-zero status when it failed, which it
\* does for a source that is neither qr nor anu.
C20_OneFlipThenExit ==
    /\ pc # "exited" => (ENABLED CliNext /\ stdout = <<>> /\ exitCode = Nil)
    /\ (arg \notin Providers /\ Fetched) =>
           fetched.err # Nil /\ requests = <<>>
    /\ Len(requests) <= 2
    /\ pc = "exited" =>
           /\ ~ENABLED CliNext
           /\ IF fetched.err = Nil
              THEN /\ stdout =
                          << <<"Ones: ", tally[1]>>,
                             <<"Zeros: ", tally[2]>>,
                             <<"Result: ", cliVerdict(tally[1], tally[2])>> >>
                   /\ tally = countBits(fetched.bytes)
                   /\ stderr = <<>>
                   /\ exitCode = 0
              ELSE /\ stdout = <<>>
                   /\ stderr = << <<"Error: ", fetched.err>> >>
                   /\ exitCode # 0

\* A run has ended with a non-zero status after the second GET of a qr fetch
\* failed.
C20_Witness ==
    /\ pc = "exited"
    /\ exitCode = 1
    /\ arg = "qr"
    /\ Len(requests) = 2
    /\ stdout = <<>>

(***************************************************************************)
(* C21                                                                     *)
(***************************************************************************)
\* The capacity of the claim: max(1, (width - 8) div 14).
Capacity == IF (width - 8) \div 14 > 1 THEN (width - 8) \div 14 ELSE 1

\* The cards of a frame; the "loading..." and editor frames have none.
CardsOf(frame) == IF frame.screen = "session" THEN frame.cards ELSE <<>>

\* The label a result is shown with.
LabelOf(res) ==
    IF res.winner = resOnes THEN onesMsg
    ELSE IF res.winner = resZeros THEN zerosMsg
    ELSE <<"T", "I", "E">>

\* The cards show the last n results, in order, the last card (only) marked
\* most recent.
ShowsLast(cards, n) ==
    /\ Len(cards) = n
    /\ \A i \in 1..n :
           LET res == results[Len(results) - n + i] IN
           /\ cards[i].ones = res.ones
           /\ cards[i].zeros = res.zeros
           /\ cards[i].label = LabelOf(res)
           /\ cards[i].latest <=> (i = n)

\* C21 as stated: whatever the width and the mode, a history of M > K
\* results is shown as its last K cards, one of 0 < M <= K results as its M
\* cards, the last card and no other marked most recent.
C21_ShowsLastKAlways ==
    stdout # <<>> =>
        LET cards == CardsOf(stdout[1])
            M == Len(results)
        IN  /\ M > Capacity => ShowsLast(cards, Capacity)
            /\ (0 < M /\ M <= Capacity) => ShowsLast(cards, M)

\* C21 amended: when the frame is the session's (a width has been reported
\* and the label editor is closed), a history of M > K results is shown as
\* its last K cards and one of M <= K results as its M cards, the last card
\* and no other marked most recent.  Before the first window size
\* (width = 0) and while the label editor is open the frame shows no card.
C21_ShowsLastKOnSessionFrame ==
    stdout # <<>> =>
        LET frame == stdout[1]
            cards == CardsOf(frame)
            M == Len(results)
        IN  /\ frame.screen = "session" <=> (width # 0 /\ ~inputMode)
            /\ frame.screen = "session" =>
                   /\ maxCards(width) = Capacity
                   /\ M > Capacity => ShowsLast(cards, Capacity)
                   /\ M <= Capacity => ShowsLast(cards, M)
                   /\ frame.empty <=> (M = 0)
            /\ frame.screen # "session" => cards = <<>>

\* Three different results on a terminal that fits two cards: the frame
\* shows the last two.
C21_Witness ==
    /\ stdout # <<>>
    /\ width = 36
    /\ ~inputMode
    /\ Len(results) = 3
    /\ results[1] # results[2] /\ results[2] # results[3]
    /\ Len(stdout[1].cards) = 2
    /\ stdout[1].cards[2].latest

(***************************************************************************)
(* C22                                                                     *)
(***************************************************************************)
\* C22: once main has chosen, a run without -i is the interactive session
\* and a run with -i is not (it spins a single coin).
C22_NoFlagsStartSession ==
    pc # "main" =>
        /\ ~interactive => pc = "tui"
        /\ interactive => pc # "tui"

(***************************************************************************)
(* C23                                                                     *)
(***************************************************************************)
\* C23: while the label editor is open no step changes the history, the
\* source, the loading flag, the recorded error or the window size, ends the
\* loop or starts a fetch; only the labels, the buffers, the focus index and
\* inputMode change.
C23_EditorLeavesSessionAlone ==
    [][inputMode => (/\ UNCHANGED <<source, results, loading, err>>
                     /\ UNCHANGED <<width, height, running>>
                     /\ Len(cmds') <= Len(cmds))]_vars

\* A flipMsg has been dispatched with the editor open: the flip is still
\* marked loading, with nothing in flight and nothing recorded.
C23_Witness ==
    /\ inputMode
    /\ loading
    /\ InFlight = 0
    /\ results = <<>>
    /\ err = Nil

(***************************************************************************)
(* C24                                                                     *)
(***************************************************************************)
\* C24: no state has a recorded error together with the loading flag.  An
\* accepted flip request clears the error; the dispatch of a flipMsg changes
\* the error only by recording the message's error, with loading cleared;
\* reset and source toggle leave the error as it is, and so does every step
\* other than those two.
C24_NoErrorWhileLoading ==
    /\ [](err # Nil => ~loading)
    /\ [][/\ (KeyEnter /\ cmds' # cmds) => (err' = Nil /\ loading')
          /\ (FlipCompleted /\ err' # err) =>
                 (err' = Head(msgs).err /\ ~loading')
          /\ KeyR => err' = err
          /\ KeyC => err' = err
          /\ err' # err => \/ KeyEnter /\ cmds' # cmds
                           \/ FlipCompleted /\ ~inputMode]_vars

\* The error of a flip requested with an unrecognised source is still
\* recorded after the source was toggled to qr.
C24_Witness ==
    /\ err = "unknown source"
    /\ source = "qr"
    /\ ~loading
    /\ running

(***************************************************************************)
(* C25                                                                     *)
(***************************************************************************)
\* C25: an accepted flip request creates its command with the selector of
\* that moment; the command answers with a message of that provider
\* whatever the selector is when it runs; and a source toggle changes the
\* selector but neither the command nor a message already returned.
C25_FetchKeepsItsSource ==
    [][/\ (KeyEnter /\ cmds' # cmds) => cmds' = Append(cmds, source)
       /\ FetchCmd => msgs'[Len(msgs')] \in Completions(cmds[1])
       /\ KeyC => (cmds' = cmds /\ msgs' = msgs)
       /\ (KeyC /\ ~inputMode) => source' # source]_vars

\* A flip requested from anu has failed at its request while the selector,
\* toggled in between, is qr.
C25_Witness ==
    /\ source = "qr"
    /\ loading
    /\ msgs # <<>>
    /\ msgs[1].err = "ANU QRNG request failed"

====
